---- MODULE Spec2Model ----
(***************************************************************************)
(* A model of osc_router.py: the JSON configuration loader (load_config),  *)
(* the rule table VALUE_MAP, the per-message handler (osc_handler,         *)
(* send_osc) and the session lifecycle driven by the GUI callbacks.        *)
(***************************************************************************)
EXTENDS Integers, Sequences, FiniteSets, TLC

\* ------------------------------------------------------------------ bounds
\* Longest mappings list of a configuration file (loader specification).
MaxMappings == 3
\* Longest mappings list of a configuration file (router specification).
MaxSessionMappings == 2
\* Most arguments an inbound message carries.
MaxArgs == 2
\* Most datagrams one session receives (handler-thread specification).
MaxDatagrams == 2

\* ------------------------------------------------------------------ values
\* A Python value as it comes out of json.load or out of an OSC datagram.
\* t is the Python type; v is the payload: the integer for "int", 0/1 for
\* "bool", the number of halves for "float" (2 is 1.0, 1 is 0.5), an index
\* for "str" (0 is the empty string), 0 for None ("nil") and for a JSON
\* array or object ("list").
PyInt(n) == [t |-> "int", v |-> n]
PyFloat(halves) == [t |-> "float", v |-> halves]
PyBool(b) == [t |-> "bool", v |-> b]
PyStr(n) == [t |-> "str", v |-> n]
PyNone == [t |-> "nil", v |-> 0]
PyList == [t |-> "list", v |-> 0]

\* Python's None where an address string is expected (dict.get on a missing key).
NoneAddr == "<None>"

IsNum(x) == x.t \in {"int", "float", "bool"}

\* The numeric value of a number, in halves.
Num(x) == IF x.t = "float" THEN x.v ELSE 2 * x.v

\* Python's == on two values: numbers compare by numeric value whatever
\* their type (1 == 1.0 == True), everything else by type and payload.
PyEq(x, y) == IF IsNum(x) /\ IsNum(y) THEN Num(x) = Num(y) ELSE x = y

\* hash(x) succeeds: lists and dicts are unhashable.
Hashable(x) == x.t # "list"

\* Python's truth value of a value: bool(x).
Truthy(x) == CASE x.t = "nil" -> FALSE
               [] x.t = "list" -> TRUE
               [] OTHER -> x.v # 0

\* `not s` for an address field: None and the empty string are falsy.
Falsy(s) == s \in {NoneAddr, ""}

\* ------------------------------------------------------------------ dict
\* A Python dict keyed by (address, value) tuples, as the sequence of its
\* items in insertion order.  Two tuples are the same key when their
\* addresses are equal and their values are == (tuple equality and hash).

KeyEq(k1, k2) == k1.address = k2.address /\ PyEq(k1.value, k2.value)

DictHas(d, k) == \E i \in 1..Len(d) : KeyEq(d[i].key, k)

DictGet(d, k) == d[CHOOSE i \in 1..Len(d) : KeyEq(d[i].key, k)].out

\* A variant of DictSet that keeps the value of an existing key (setdefault).
DictSetKeepFirst(d, k, out) ==
    IF \E i \in 1..Len(d) : KeyEq(d[i].key, k)
    THEN d
    ELSE Append(d, [key |-> k, out |-> out])

\* d[k] = out: an existing key keeps its key object and takes the new value.
DictSet(d, k, out) ==
    IF DictHas(d, k)
    THEN [i \in 1..Len(d) |->
            IF KeyEq(d[i].key, k) THEN [key |-> d[i].key, out |-> out] ELSE d[i]]
    ELSE Append(d, [key |-> k, out |-> out])

\* ------------------------------------------------------------------ config.json
\* One object of the "mappings" array.  A missing key and a JSON null both
\* read as None through dict.get: NoneAddr for the two addresses, PyNone for
\* in_value.  out_args is read with a default, so the missing key is kept
\* apart: kind is "missing", "null", "list" (items are the elements) or
\* "scalar" (items holds the one value).
Entry(ia, iv, oa, og) ==
    [in_address |-> ia, in_value |-> iv, out_address |-> oa, out_args |-> og]

ArgsMissing == [kind |-> "missing", items |-> << >>]
ArgsNull == [kind |-> "null", items |-> << >>]
ArgsList(items) == [kind |-> "list", items |-> items]
ArgsScalar(x) == [kind |-> "scalar", items |-> <<x>>]

SeqsUpTo(S, n) == UNION {[1..k -> S] : k \in 0..n}

\* The entries the loader specification draws from: every storable
\* (in_address, in_value) with every (out_address, out_args), and the
\* entries without an in_address or with an empty one.
LoadInKeys ==
    {<<"/a", PyInt(1)>>, <<"/a", PyFloat(2)>>, <<"/a", PyList>>, <<"/b", PyInt(1)>>}

LoadOuts ==
    {<<NoneAddr, ArgsList(<<PyInt(7)>>)>>, <<"", ArgsMissing>>,
     <<"/x", ArgsMissing>>, <<"/y", ArgsList(<<PyInt(7)>>)>>}

LoadEntries ==
    {Entry(k[1], k[2], o[1], o[2]) : k \in LoadInKeys, o \in LoadOuts}
        \cup {Entry(NoneAddr, PyInt(1), "/x", ArgsMissing),
              Entry("", PyList, "/x", ArgsMissing)}

\* The entries the router specification draws from.
RouterEntries ==
    {Entry("/a", PyInt(1), "/x", ArgsList(<<PyInt(7), PyStr(1)>>)),
     Entry("/a", PyInt(1), "/y", ArgsScalar(PyInt(7))),
     Entry("/a", PyFloat(2), "/y", ArgsNull),
     Entry("/a", PyFloat(1), "/y", ArgsList(<<PyInt(7)>>)),
     Entry("/a", PyNone, "/x", ArgsMissing),
     Entry("/b", PyStr(1), "/x", ArgsList(<<PyInt(7)>>)),
     Entry("", PyInt(1), "/x", ArgsList(<<PyInt(7)>>)),
     Entry("/a", PyInt(1), "", ArgsMissing),
     Entry("/a", PyList, "/x", ArgsMissing)}

\* The decoded top-level object: forward_unmapped is the sequence of at
\* most one value (empty when the key is missing).
ForwardFields == {<< >>, <<PyBool(1)>>, <<PyBool(0)>>}

\* The file on disk: it does not exist ("missing"), it cannot be opened or
\* is not JSON ("unreadable"), or it decodes to data ("ok").
FileOk(fu, ms) == [status |-> "ok", forward_unmapped |-> fu, mappings |-> ms]
FileMissing == [status |-> "missing", forward_unmapped |-> << >>, mappings |-> << >>]
FileUnreadable ==
    [status |-> "unreadable", forward_unmapped |-> << >>, mappings |-> << >>]

ConfigFiles(entries, n) ==
    {FileMissing, FileUnreadable}
        \cup {FileOk(fu, ms) : fu \in ForwardFields, ms \in SeqsUpTo(entries, n)}

\* ------------------------------------------------------------------ messages
\* An OSC message: an address and the sequence of its arguments.
Msg(address, args) == [address |-> address, args |-> args]

Addresses == {"/a", "/b"}

\* First arguments and later arguments of the inbound messages.
FirstValues == {PyInt(1), PyFloat(2), PyBool(1), PyStr(1), PyInt(0), PyFloat(1)}
RestValues == {PyInt(9)}

InboundArgs ==
    {<< >>} \cup {<<f>> \o r : f \in FirstValues, r \in SeqsUpTo(RestValues, MaxArgs - 1)}

Inbound == {Msg(a, args) : a \in Addresses, args \in InboundArgs}

\* A line handed to log_gui: what it reports, and the address and values it prints.
LogEvent(ev, address, args) == [ev |-> ev, address |-> address, args |-> args]

\* ------------------------------------------------------------------ state
VARIABLES
    config_file,        \* config.json on disk
    VALUE_MAP,          \* the rule table: (in_address, in_value) -> (out_address, out_args)
    FORWARD_UNMAPPED,   \* the policy for messages without a rule
    osc_client,         \* "None" or "client"
    osc_server_obj,     \* "None" or "server"
    server_thread,      \* "None" or "thread"
    running,            \* OSCMapperApp.running
    pc,                 \* where main() is
    load_result,        \* how load_config ended: "none", "returned", "built", "raised"
    inbound,            \* the message the operation that ran last handled (none or one)
    sent,               \* the osc_client.send_message calls of the operation that ran last
    log,                \* the log_gui lines of the operation that ran last
    last_op,            \* the operation that ran last
    dialog,             \* the messagebox.showerror of the operation that ran last, or "none"
    made,               \* the objects the operation that ran last constructed
    send_error,         \* the osc_client.send_message of the operation that ran last raised
    raised,             \* the operation that ran last ended by an exception leaving osc_handler
    live_servers,       \* the server objects that hold a bound socket
    live_threads,       \* the threads that run serve_forever
    handlers,           \* the per-datagram handler threads of the session, in arrival order
    outbox,             \* the osc_client.send_message calls of the session, in call order
    tlog                \* the log_gui lines of the handler threads, in call order

threadVars == <<handlers, outbox, tlog>>

vars == <<config_file, VALUE_MAP, FORWARD_UNMAPPED, osc_client, osc_server_obj,
          server_thread, running, pc, load_result, inbound, sent, log,
          last_op, dialog, made, send_error, raised, live_servers, live_threads,
          handlers, outbox, tlog>>

\* The module globals as the import leaves them.
InitGlobals ==
    /\ VALUE_MAP = << >>
    /\ FORWARD_UNMAPPED = TRUE
    /\ osc_client = "None"
    /\ osc_server_obj = "None"
    /\ server_thread = "None"
    /\ running = FALSE
    /\ pc = "load_config"
    /\ load_result = "none"
    /\ inbound = << >>
    /\ sent = << >>
    /\ log = << >>
    /\ last_op = "import"
    /\ dialog = "none"
    /\ made = {}
    /\ send_error = FALSE
    /\ raised = FALSE
    /\ live_servers = 0
    /\ live_threads = 0
    /\ handlers = << >>
    /\ outbox = << >>
    /\ tlog = << >>

Init ==
    /\ config_file \in ConfigFiles(RouterEntries, MaxSessionMappings)
    /\ InitGlobals

InitLoad ==
    /\ config_file \in ConfigFiles(LoadEntries, MaxMappings)
    /\ InitGlobals

\* ------------------------------------------------------------------ load_config
\* The file load_config writes when none exists.
DefaultConfig == FileOk(<<PyBool(1)>>, << >>)

\* bool(data.get("forward_unmapped", False))
\* A flag that is true when the file does not carry the field.
ForwardFlagDefaultTrue(data) ==
    IF data.forward_unmapped = << >> THEN TRUE ELSE Truthy(data.forward_unmapped[1])

ForwardFlag(data) ==
    IF data.forward_unmapped = << >> THEN FALSE ELSE Truthy(data.forward_unmapped[1])

\* m.get("out_args", [])
\* An entry without out_args read as one with a null out_args.
OutArgsOfNone(m) == IF m.out_args.kind = "missing" THEN ArgsNull ELSE m.out_args

OutArgsOf(m) == IF m.out_args.kind = "missing" THEN ArgsList(<< >>) ELSE m.out_args

RuleKey(address, value) == [address |-> address, value |-> value]
RuleOut(address, args) == [address |-> address, args |-> args]

\* A variant of Skipped that tests in_address only.
SkippedInOnly(m) == Falsy(m.in_address)

\* `if not in_addr or not out_addr: continue`
Skipped(m) == Falsy(m.in_address) \/ Falsy(m.out_address)

\* The loop over data["mappings"], from the dict d built so far: the dict
\* it ends with, or raised when hashing a key raises TypeError.
RECURSIVE BuildMap(_, _)
BuildMap(ms, d) ==
    IF ms = << >> THEN [raised |-> FALSE, map |-> d]
    ELSE LET m == Head(ms) IN
         IF Skipped(m) THEN BuildMap(Tail(ms), d)
         ELSE IF ~Hashable(m.in_value) THEN [raised |-> TRUE, map |-> d]
         ELSE BuildMap(Tail(ms),
                       DictSet(d, RuleKey(m.in_address, m.in_value),
                               RuleOut(m.out_address, OutArgsOf(m))))

\* A variant of LoadReturn that also resets the policy to false.
LoadReturnResetPolicy(ev) ==
    /\ log' = <<LogEvent(ev, "", << >>)>>
    /\ load_result' = "returned"
    /\ pc' = "create_app"
    /\ FORWARD_UNMAPPED' = FALSE
    /\ UNCHANGED <<config_file, VALUE_MAP>>

\* The two `return`s of load_config after a failed write or read: ev is the
\* error line logged; the globals are left as they are.
LoadReturn(ev) ==
    /\ log' = <<LogEvent(ev, "", << >>)>>
    /\ load_result' = "returned"
    /\ pc' = "create_app"
    /\ UNCHANGED <<config_file, VALUE_MAP, FORWARD_UNMAPPED>>

\* load_config from the forward_unmapped flag on, with the decoded data and
\* the line logged when the file was opened or created.
LoadBuild(data, opened) ==
    LET b == BuildMap(data.mappings, << >>) IN
    /\ config_file' = data
    /\ FORWARD_UNMAPPED' = ForwardFlag(data)
    /\ IF b.raised
       THEN /\ log' = <<opened>>
            /\ load_result' = "raised"
            /\ pc' = "crashed"
            /\ UNCHANGED VALUE_MAP
       ELSE /\ VALUE_MAP' = b.map
            /\ log' = <<opened,
                        LogEvent("LOADED_N", "",
                                 <<PyInt(Len(b.map)),
                                   PyBool(IF ForwardFlag(data) THEN 1 ELSE 0)>>)>>
            /\ load_result' = "built"
            /\ pc' = "create_app"

\* main() calls load_config().  write_ok: the default file can be written.
load_config ==
    /\ pc = "load_config"
    /\ \E write_ok \in BOOLEAN :
        CASE config_file.status = "unreadable" -> LoadReturn("ERROR_READ")
          [] config_file.status = "missing" /\ ~write_ok -> LoadReturn("ERROR_WRITE")
          [] config_file.status = "missing" /\ write_ok ->
                LoadBuild(DefaultConfig, LogEvent("CREATED_DEFAULT", "", << >>))
          [] OTHER -> LoadBuild(config_file, LogEvent("LOADED_FROM", "", << >>))
    /\ last_op' = "load_config"
    /\ UNCHANGED <<osc_client, osc_server_obj, server_thread, running, inbound, sent,
                   dialog, made, send_error, raised, live_servers, live_threads>>
    /\ UNCHANGED threadVars

\* ------------------------------------------------------------------ the GUI
\* app = OSCMapperApp(); app.mainloop()
CreateApp ==
    /\ pc = "create_app"
    /\ pc' = "mainloop"
    /\ running' = FALSE
    /\ log' = << >>
    /\ last_op' = "create_app"
    /\ UNCHANGED <<config_file, VALUE_MAP, FORWARD_UNMAPPED, osc_client,
                   osc_server_obj, server_thread, load_result, inbound, sent,
                   dialog, made, send_error, raised, live_servers, live_threads>>
    /\ UNCHANGED threadVars

\* A start_osc_server whose exception never reaches on_start.
StartRaisesNever(client_ok, bind_ok) == FALSE

\* start_osc_server(listen_ip, listen_port, target_ip, target_port).
\* client_ok: SimpleUDPClient(...) returns; bind_ok: the listening socket
\* can be bound.  It raises when either does not hold.
StartRaises(client_ok, bind_ok) == ~client_ok \/ ~bind_ok

start_osc_server(client_ok, bind_ok) ==
    IF ~client_ok
    THEN /\ made' = {}
         /\ UNCHANGED <<osc_client, osc_server_obj, server_thread, live_servers,
                        live_threads>>
         /\ UNCHANGED threadVars
    ELSE /\ osc_client' = "client"
         /\ IF ~bind_ok
            THEN /\ made' = {"client"}
                 /\ UNCHANGED <<osc_server_obj, server_thread, live_servers,
                                live_threads>>
                 /\ UNCHANGED threadVars
            ELSE /\ osc_server_obj' = "server"
                 /\ server_thread' = "thread"
                 /\ made' = {"client", "server", "thread"}
                 /\ live_servers' = live_servers + 1
                 /\ live_threads' = live_threads + 1
                 /\ handlers' = << >>
                 /\ outbox' = << >>
                 /\ tlog' = << >>

\* on_start with what the environment answers, is_running being what it
\* reads in self.running.  ports_ok: both port fields parse as integers.
StartBody(is_running, ports_ok, client_ok, bind_ok) ==
    /\ pc = "mainloop"
    /\ IF is_running
       THEN /\ log' = << >>
            /\ dialog' = "none"
            /\ made' = {}
            /\ UNCHANGED <<osc_client, osc_server_obj, server_thread, running,
                           live_servers, live_threads>>
            /\ UNCHANGED threadVars
       ELSE IF ~ports_ok
       THEN /\ log' = << >>
            /\ dialog' = "ports_must_be_integers"
            /\ made' = {}
            /\ UNCHANGED <<osc_client, osc_server_obj, server_thread, running,
                           live_servers, live_threads>>
            /\ UNCHANGED threadVars
       ELSE /\ start_osc_server(client_ok, bind_ok)
            /\ IF StartRaises(client_ok, bind_ok)
               THEN /\ log' = << >>
                    /\ dialog' = "failed_to_start"
                    /\ UNCHANGED running
               ELSE /\ log' = <<LogEvent("SERVER_STARTING", "", << >>),
                                LogEvent("FORWARDING_TO", "", << >>),
                                LogEvent("STARTED", "", << >>)>>
                    /\ dialog' = "none"
                    /\ running' = TRUE
    /\ last_op' = "on_start"
    /\ inbound' = << >>
    /\ sent' = << >>
    /\ send_error' = FALSE
    /\ raised' = FALSE
    /\ UNCHANGED <<config_file, VALUE_MAP, FORWARD_UNMAPPED, pc, load_result>>

\* An on_start that does not look at self.running.
StartWithUnguarded(ports_ok, client_ok, bind_ok) ==
    StartBody(FALSE, ports_ok, client_ok, bind_ok)

StartWith(ports_ok, client_ok, bind_ok) ==
    StartBody(running, ports_ok, client_ok, bind_ok)

\* The Start button.
on_start ==
    \E ports_ok \in BOOLEAN, client_ok \in BOOLEAN, bind_ok \in BOOLEAN :
        StartWith(ports_ok, client_ok, bind_ok)

\* Every handler thread of the server has ended (server_close joins them).
HandlersJoined == \A i \in 1..Len(handlers) : handlers[i].pc = "done"

\* A stop_osc_server that forgets the server thread and leaves the server
\* serving.
stop_osc_server_thread_only ==
    /\ server_thread' = "None"
    /\ log' = <<LogEvent("STOPPED", "", << >>)>>
    /\ UNCHANGED <<osc_server_obj, live_servers, live_threads>>

\* stop_osc_server(): what it leaves in osc_server_obj, server_thread and the
\* log.  shutdown() ends the serving thread, server_close() closes the
\* socket and waits for the handler threads.
stop_osc_server ==
    /\ osc_server_obj # "None" => HandlersJoined
    /\ osc_server_obj' = "None"
    /\ server_thread' = "None"
    /\ live_servers' = IF osc_server_obj # "None" THEN live_servers - 1 ELSE live_servers
    /\ live_threads' = IF osc_server_obj # "None" THEN live_threads - 1 ELSE live_threads
    /\ log' = IF osc_server_obj # "None"
              THEN <<LogEvent("STOPPING", "", << >>), LogEvent("STOPPED", "", << >>)>>
              ELSE <<LogEvent("STOPPED", "", << >>)>>

\* An on_stop that forgets the rules of the session it ends.
on_stop_forgets ==
    /\ pc = "mainloop"
    /\ IF ~running
       THEN /\ log' = << >>
            /\ UNCHANGED <<VALUE_MAP, osc_server_obj, server_thread, running,
                           live_servers, live_threads>>
       ELSE /\ stop_osc_server
            /\ VALUE_MAP' = << >>
            /\ running' = FALSE
    /\ last_op' = "on_stop"
    /\ dialog' = "none"
    /\ made' = {}
    /\ send_error' = FALSE
    /\ raised' = FALSE
    /\ inbound' = << >>
    /\ sent' = << >>
    /\ UNCHANGED <<config_file, FORWARD_UNMAPPED, osc_client, pc, load_result>>
    /\ UNCHANGED threadVars

\* An on_stop that reports an error when no session is running.
on_stop_strict ==
    /\ pc = "mainloop"
    /\ IF ~running
       THEN /\ log' = << >>
            /\ dialog' = "not_running"
            /\ UNCHANGED <<osc_server_obj, server_thread, running, live_servers,
                           live_threads>>
       ELSE /\ stop_osc_server
            /\ dialog' = "none"
            /\ running' = FALSE
    /\ last_op' = "on_stop"
    /\ made' = {}
    /\ send_error' = FALSE
    /\ raised' = FALSE
    /\ inbound' = << >>
    /\ sent' = << >>
    /\ UNCHANGED <<config_file, VALUE_MAP, FORWARD_UNMAPPED, osc_client, pc,
                   load_result>>
    /\ UNCHANGED threadVars

\* The Stop button.
on_stop ==
    /\ pc = "mainloop"
    /\ IF ~running
       THEN /\ log' = << >>
            /\ UNCHANGED <<osc_server_obj, server_thread, running, live_servers,
                           live_threads>>
       ELSE /\ stop_osc_server
            /\ running' = FALSE
    /\ last_op' = "on_stop"
    /\ dialog' = "none"
    /\ made' = {}
    /\ send_error' = FALSE
    /\ raised' = FALSE
    /\ inbound' = << >>
    /\ sent' = << >>
    /\ UNCHANGED <<config_file, VALUE_MAP, FORWARD_UNMAPPED, osc_client, pc,
                   load_result>>
    /\ UNCHANGED threadVars

\* Closing the window.
on_close ==
    /\ pc = "mainloop"
    /\ IF running
       THEN stop_osc_server
       ELSE /\ log' = << >>
            /\ UNCHANGED <<osc_server_obj, server_thread, live_servers, live_threads>>
    /\ pc' = "destroyed"
    /\ last_op' = "on_close"
    /\ dialog' = "none"
    /\ made' = {}
    /\ send_error' = FALSE
    /\ raised' = FALSE
    /\ inbound' = << >>
    /\ sent' = << >>
    /\ UNCHANGED <<config_file, VALUE_MAP, FORWARD_UNMAPPED, osc_client, running,
                   load_result>>
    /\ UNCHANGED threadVars

\* ------------------------------------------------------------------ OSC logic
\* send_osc(address, out_args) with the client as it is: the send_message
\* calls it makes and the lines it logs.
\* A send_osc that sends without writing its log line.
send_osc_silent(client, address, out_args) ==
    IF client = "None"
    THEN [sent |-> << >>, log |-> << >>]
    ELSE LET args == IF out_args.kind = "null" THEN << >>
                     ELSE IF out_args.kind = "list" THEN out_args.items
                     ELSE <<out_args.items[1]>>
         IN  [sent |-> <<Msg(address, args)>>, log |-> << >>]

send_osc(client, address, out_args) ==
    IF client = "None"
    THEN [sent |-> << >>, log |-> <<LogEvent("WARN_NO_CLIENT", "", << >>)>>]
    ELSE LET args == IF out_args.kind = "null" THEN << >>
                     ELSE IF out_args.kind = "list" THEN out_args.items
                     ELSE <<out_args.items[1]>>
         IN  [sent |-> <<Msg(address, args)>>,
              log |-> <<LogEvent("SEND", address, args)>>]

\* A variant of first_arg that keys on the last argument.
first_arg_last(args) == IF Len(args) > 0 THEN args[Len(args)] ELSE PyNone

\* A variant of first_arg that takes a falsy first argument for no argument
\* (`args[0] if args and args[0] else None`).
first_arg_falsy(args) == IF Len(args) > 0 /\ Truthy(args[1]) THEN args[1] ELSE PyNone

\* first_arg = args[0] if args else None
first_arg(args) == IF Len(args) > 0 THEN args[1] ELSE PyNone

\* A variant of osc_handler that passes only the first argument through.
osc_handler_first_only(map, forward, client, msg) ==
    LET recv == LogEvent("RECV", msg.address, msg.args)
        key == RuleKey(msg.address, first_arg(msg.args))
        out == IF DictHas(map, key)
               THEN send_osc(client, DictGet(map, key).address, DictGet(map, key).args)
               ELSE IF forward
               THEN send_osc(client, msg.address,
                             IF msg.args = << >> THEN ArgsNull ELSE ArgsScalar(msg.args[1]))
               ELSE [sent |-> << >>,
                     log |-> <<LogEvent("IGNORED", key.address, <<key.value>>)>>]
    IN  [sent |-> out.sent, log |-> <<recv>> \o out.log]

\* A variant of osc_handler that forwards every unmapped message, whatever the policy.
osc_handler_ignore_policy(map, forward, client, msg) ==
    LET recv == LogEvent("RECV", msg.address, msg.args)
        key == RuleKey(msg.address, first_arg(msg.args))
        out == IF DictHas(map, key)
               THEN send_osc(client, DictGet(map, key).address, DictGet(map, key).args)
               ELSE send_osc(client, msg.address, ArgsList(msg.args))
    IN  [sent |-> out.sent, log |-> <<recv>> \o out.log]

\* A variant of osc_handler that sends the inbound arguments to the mapped address.
osc_handler_keep_args(map, forward, client, msg) ==
    LET recv == LogEvent("RECV", msg.address, msg.args)
        key == RuleKey(msg.address, first_arg(msg.args))
        out == IF DictHas(map, key)
               THEN send_osc(client, DictGet(map, key).address, ArgsList(msg.args))
               ELSE IF forward
               THEN send_osc(client, msg.address, ArgsList(msg.args))
               ELSE [sent |-> << >>,
                     log |-> <<LogEvent("IGNORED", key.address, <<key.value>>)>>]
    IN  [sent |-> out.sent, log |-> <<recv>> \o out.log]

\* osc_handler(address, *args) with the table, the policy and the client as
\* they are: the send_message calls it makes and the lines it logs.
osc_handler(map, forward, client, msg) ==
    LET recv == LogEvent("RECV", msg.address, msg.args)
        key == RuleKey(msg.address, first_arg(msg.args))
        out == IF DictHas(map, key)
               THEN send_osc(client, DictGet(map, key).address, DictGet(map, key).args)
               ELSE IF forward
               THEN send_osc(client, msg.address, ArgsList(msg.args))
               ELSE [sent |-> << >>,
                     log |-> <<LogEvent("IGNORED", key.address, <<key.value>>)>>]
    IN  [sent |-> out.sent, log |-> <<recv>> \o out.log]

\* The listening server receives a datagram and calls the default handler,
\* taken as one step up to the call of osc_client.send_message; what the
\* call answers is the matter of handler_send.
serve_forever ==
    /\ pc = "mainloop"
    /\ osc_server_obj = "server"
    /\ \E msg \in Inbound :
        LET r == osc_handler(VALUE_MAP, FORWARD_UNMAPPED, osc_client, msg)
        IN  /\ inbound' = <<msg>>
            /\ sent' = r.sent
            /\ log' = r.log
    /\ last_op' = "osc_handler"
    /\ UNCHANGED <<send_error, raised>>
    /\ dialog' = "none"
    /\ made' = {}
    /\ UNCHANGED <<config_file, VALUE_MAP, FORWARD_UNMAPPED, osc_client,
                   osc_server_obj, server_thread, running, pc, load_result,
                   live_servers, live_threads>>
    /\ UNCHANGED threadVars

\* ------------------------------------------------------------------ handler threads
\* ThreadingOSCUDPServer runs the handler of every datagram in a thread of
\* its own.  A handler thread is [msg, pc, out]: the message it was given,
\* where it stands in osc_handler ("recv" before the RECV line, "route"
\* before the lookup, "send" before osc_client.send_message, "done"), and
\* the outbound message send_osc has prepared.

ThreadEntry == Entry("/a", PyInt(1), "/x", ArgsList(<<PyInt(5)>>))

ThreadConfigs ==
    {FileOk(fu, ms) : fu \in {<<PyBool(1)>>, <<PyBool(0)>>},
                      ms \in {<< >>, <<ThreadEntry>>}}

ThreadInbound == {Msg("/a", <<PyInt(1)>>), Msg("/b", << >>)}

ThreadOps == {"receive", "handler_recv", "handler_route", "handler_send"}

\* What a step of a handler thread leaves of the window and the lifecycle.
ThreadFrame ==
    /\ dialog' = "none"
    /\ made' = {}
    /\ UNCHANGED <<config_file, VALUE_MAP, FORWARD_UNMAPPED, osc_client,
                   osc_server_obj, server_thread, running, pc, load_result,
                   inbound, sent, log, live_servers, live_threads>>

\* The serving thread reads a datagram and starts its handler thread.
receive ==
    /\ pc = "mainloop"
    /\ osc_server_obj = "server"
    /\ Len(handlers) < MaxDatagrams
    /\ \E msg \in ThreadInbound :
        handlers' = Append(handlers, [msg |-> msg, pc |-> "recv", out |-> << >>])
    /\ last_op' = "receive"
    /\ send_error' = FALSE
    /\ raised' = FALSE
    /\ UNCHANGED <<outbox, tlog>>
    /\ ThreadFrame

\* Handler thread i writes its RECV line.
handler_recv(i) ==
    /\ handlers[i].pc = "recv"
    /\ LET h == handlers[i]
           r == osc_handler(VALUE_MAP, FORWARD_UNMAPPED, osc_client, h.msg)
       IN  /\ tlog' = Append(tlog, [id |-> i, line |-> r.log[1]])
           /\ handlers' = [handlers EXCEPT ![i].pc = "route"]
    /\ last_op' = "handler_recv"
    /\ send_error' = FALSE
    /\ raised' = FALSE
    /\ UNCHANGED outbox
    /\ ThreadFrame

\* The log lines of s, each marked as written by handler thread i.
RECURSIVE Lines(_, _)
Lines(i, s) ==
    IF s = << >> THEN << >>
    ELSE <<[id |-> i, line |-> Head(s)]>> \o Lines(i, Tail(s))

\* Handler thread i looks its key up and writes the line of its outcome;
\* on a forward it stands before the send afterwards.
handler_route(i) ==
    /\ handlers[i].pc = "route"
    /\ LET h == handlers[i]
           r == osc_handler(VALUE_MAP, FORWARD_UNMAPPED, osc_client, h.msg)
       IN  /\ tlog' = tlog \o Lines(i, Tail(r.log))
           /\ handlers' = [handlers EXCEPT
                             ![i].pc = IF r.sent = << >> THEN "done" ELSE "send",
                             ![i].out = r.sent]
    /\ last_op' = "handler_route"
    /\ send_error' = FALSE
    /\ raised' = FALSE
    /\ UNCHANGED outbox
    /\ ThreadFrame

\* Handler thread i calls osc_client.send_message, which returns or raises.
\* send_ok: it returns; when it raises, nothing in send_osc or osc_handler
\* catches the exception and the thread ends by it.
handler_send(i) ==
    /\ handlers[i].pc = "send"
    /\ outbox' = Append(outbox, [id |-> i, msg |-> handlers[i].out[1]])
    /\ handlers' = [handlers EXCEPT ![i].pc = "done"]
    /\ \E send_ok \in BOOLEAN :
        /\ send_error' = ~send_ok
        /\ raised' = ~send_ok
    /\ last_op' = "handler_send"
    /\ UNCHANGED tlog
    /\ ThreadFrame

\* ------------------------------------------------------------------ specifications
Next == load_config \/ CreateApp \/ on_start \/ on_stop \/ on_close \/ serve_forever

Spec == Init /\ [][Next]_vars

InitThreads ==
    /\ InitGlobals
    /\ config_file \in ThreadConfigs

NextThreads ==
    \/ load_config
    \/ CreateApp
    \/ on_start
    \/ on_stop
    \/ on_close
    \/ receive
    \/ \E i \in 1..Len(handlers) : handler_recv(i)
    \/ \E i \in 1..Len(handlers) : handler_route(i)
    \/ \E i \in 1..Len(handlers) : handler_send(i)

SpecThreads == InitThreads /\ [][NextThreads]_vars

NextLoad == load_config

SpecLoad == InitLoad /\ [][NextLoad]_vars

\* ------------------------------------------------------------------ properties
\* The handler has just handled a message.
Handled == inbound # << >>

\* The key the handled message is looked up under: its address and its
\* first argument, or None when it has no argument.
InboundKey ==
    [address |-> inbound[1].address,
     value |-> IF Len(inbound[1].args) >= 1 THEN inbound[1].args[1] ELSE PyNone]

\* Some rule of the table has the key of the handled message.
InboundHit == \E i \in 1..Len(VALUE_MAP) : KeyEq(VALUE_MAP[i].key, InboundKey)

\* The message a rule's output stands for: its out_address and the values
\* configured as its out_args.
OutMsg(out) == Msg(out.address, out.args.items)

\* C1: whenever the table holds a rule keyed (A, V) and the handled message
\* has address A and first argument exactly V (same type, same value), the
\* handler makes exactly one send, to that rule's out_address with that
\* rule's arguments, whatever the later arguments and whatever the policy.
C1_ExactMatch ==
    \A i \in 1..Len(VALUE_MAP) :
        (/\ Handled
         /\ Len(inbound[1].args) >= 1
         /\ VALUE_MAP[i].key.address = inbound[1].address
         /\ VALUE_MAP[i].key.value = inbound[1].args[1])
        => /\ sent = <<OutMsg(VALUE_MAP[i].out)>>
           /\ log = <<LogEvent("RECV", inbound[1].address, inbound[1].args),
                      LogEvent("SEND", sent[1].address, sent[1].args)>>

\* C1 witness: a two-argument message hits a rule on its first argument
\* while forward_unmapped is false.
C1_Witness ==
    /\ Handled
    /\ Len(inbound[1].args) = 2
    /\ ~FORWARD_UNMAPPED
    /\ \E i \in 1..Len(VALUE_MAP) :
          /\ VALUE_MAP[i].key.address = inbound[1].address
          /\ VALUE_MAP[i].key.value = inbound[1].args[1]
          /\ sent = <<OutMsg(VALUE_MAP[i].out)>>

\* C2: with forward_unmapped true and the key of the handled message not in
\* the table, the handler makes exactly one send, and it is the inbound
\* message itself: same address, same arguments in the same order.
C2_Passthrough ==
    (Handled /\ FORWARD_UNMAPPED /\ ~InboundHit)
    => /\ sent = <<Msg(inbound[1].address, inbound[1].args)>>
       /\ Len(sent[1].args) = Len(inbound[1].args)

\* C2 witness: a two-argument message misses a non-empty table and is passed through.
C2_Witness ==
    /\ Handled
    /\ FORWARD_UNMAPPED
    /\ ~InboundHit
    /\ VALUE_MAP # << >>
    /\ Len(inbound[1].args) = 2
    /\ sent = <<inbound[1]>>

\* C3: with forward_unmapped false and the key of the handled message not
\* in the table, the handler makes no send and logs only the receipt and
\* the ignored key.
C3_Drop ==
    (Handled /\ ~FORWARD_UNMAPPED /\ ~InboundHit)
    => /\ sent = << >>
       /\ log = <<LogEvent("RECV", inbound[1].address, inbound[1].args),
                  LogEvent("IGNORED", InboundKey.address, <<InboundKey.value>>)>>

\* C3 witness: a message with arguments misses a non-empty table and is dropped.
C3_Witness ==
    /\ Handled
    /\ ~FORWARD_UNMAPPED
    /\ ~InboundHit
    /\ VALUE_MAP # << >>
    /\ Len(inbound[1].args) >= 1
    /\ sent = << >>

C5_MappedOutput ==
    (Handled /\ InboundHit)
    => /\ \E i \in 1..Len(VALUE_MAP) :
            /\ KeyEq(VALUE_MAP[i].key, InboundKey)
            /\ sent = <<Msg(VALUE_MAP[i].out.address, VALUE_MAP[i].out.args.items)>>
            /\ \A n \in 1..Len(inbound[1].args) :
                  (\E m \in 1..Len(sent[1].args) : sent[1].args[m] = inbound[1].args[n])
                  => \E m \in 1..Len(VALUE_MAP[i].out.args.items) :
                         VALUE_MAP[i].out.args.items[m] = inbound[1].args[n]
       /\ \E n \in 1..Len(config_file.mappings) :
            LET e == config_file.mappings[n] IN
            /\ ~Falsy(e.in_address)
            /\ ~Falsy(e.out_address)
            /\ KeyEq(RuleKey(e.in_address, e.in_value), InboundKey)
            /\ sent = <<Msg(e.out_address, e.out_args.items)>>

\* C5 witness: a two-argument message hits a rule whose out_args hold
\* values, none of them an argument of the message.
C5_Witness ==
    /\ Handled
    /\ InboundHit
    /\ Len(inbound[1].args) = 2
    /\ Len(sent) = 1
    /\ sent[1].args # << >>
    /\ \A n \in 1..2 : \A m \in 1..Len(sent[1].args) : sent[1].args[m] # inbound[1].args[n]

\* The n-th entry of the decoded mappings list has a non-empty in_address
\* and a non-empty out_address.
ValidAt(n) ==
    /\ config_file.mappings[n].in_address \notin {NoneAddr, ""}
    /\ config_file.mappings[n].out_address \notin {NoneAddr, ""}

\* The key of the n-th entry of the decoded mappings list.
EntryKey(n) ==
    [address |-> config_file.mappings[n].in_address,
     value |-> config_file.mappings[n].in_value]

\* The rule stored at position i is the output the n-th entry configures.
StoresOutputOf(i, n) ==
    /\ VALUE_MAP[i].out.address = config_file.mappings[n].out_address
    /\ VALUE_MAP[i].out.args.items = config_file.mappings[n].out_args.items

\* C6 (the claim as stated; the program violates it): a message whose
\* first argument is not, in type and value, the in_value of any rule at its
\* address is passed through or dropped, and two valid entries at one
\* address whose in_values differ are stored as two rules.
C6_ExactTypeEquality ==
    /\ (/\ Handled
        /\ Len(inbound[1].args) >= 1
        /\ ~\E i \in 1..Len(VALUE_MAP) :
               /\ VALUE_MAP[i].key.address = inbound[1].address
               /\ VALUE_MAP[i].key.value = inbound[1].args[1])
       => sent = IF FORWARD_UNMAPPED THEN <<inbound[1]>> ELSE << >>
    /\ load_result = "built"
       => \A m, n \in 1..Len(config_file.mappings) :
             (ValidAt(m) /\ ValidAt(n) /\ EntryKey(m) # EntryKey(n))
             => \E i, j \in 1..Len(VALUE_MAP) :
                   /\ i # j
                   /\ VALUE_MAP[i].key = EntryKey(m)
                   /\ VALUE_MAP[j].key = EntryKey(n)

\* C7: in a built table every key of a valid entry has exactly one rule,
\* and the rule holds the output of the last valid entry with that key in
\* list order (entries have the same key when the table takes their keys
\* for the same); skipped entries change nothing.
C7_LastWriteWins ==
    load_result = "built"
    => \A n \in 1..Len(config_file.mappings) :
          ValidAt(n)
          => LET same == {k \in 1..Len(config_file.mappings) :
                             ValidAt(k) /\ KeyEq(EntryKey(k), EntryKey(n))}
                 last == CHOOSE k \in same : \A l \in same : l <= k
                 rules == {i \in 1..Len(VALUE_MAP) : KeyEq(VALUE_MAP[i].key, EntryKey(n))}
             IN  /\ Cardinality(rules) = 1
                 /\ \A i \in rules : StoresOutputOf(i, last)

\* C7 witness: two valid entries with one key and different outputs, then
\* an entry with that key and no out_address; the table holds one rule, with
\* the second entry's output.
C7_Witness ==
    /\ load_result = "built"
    /\ Len(config_file.mappings) = 3
    /\ ValidAt(1) /\ ValidAt(2) /\ ~ValidAt(3)
    /\ EntryKey(1) = EntryKey(2)
    /\ EntryKey(3) = EntryKey(2)
    /\ config_file.mappings[1].out_address # config_file.mappings[2].out_address
    /\ Len(VALUE_MAP) = 1
    /\ StoresOutputOf(1, 2)

\* C8: a built table holds no rule with a missing or empty address; every
\* rule holds the output of an entry with both addresses non-empty; no
\* rule comes from an entry lacking one; and the key of every entry with both
\* addresses non-empty is in the table, wherever the skipped entries stand.
C8_MalformedSkip ==
    load_result = "built"
    => /\ \A i \in 1..Len(VALUE_MAP) :
            /\ VALUE_MAP[i].key.address \notin {NoneAddr, ""}
            /\ VALUE_MAP[i].out.address \notin {NoneAddr, ""}
            /\ \E n \in 1..Len(config_file.mappings) :
                  ValidAt(n) /\ KeyEq(VALUE_MAP[i].key, EntryKey(n)) /\ StoresOutputOf(i, n)
            /\ \A n \in 1..Len(config_file.mappings) :
                  ~ValidAt(n)
                  => ~(/\ VALUE_MAP[i].key.address = config_file.mappings[n].in_address
                       /\ VALUE_MAP[i].out.address = config_file.mappings[n].out_address)
       /\ \A n \in 1..Len(config_file.mappings) :
            ValidAt(n) => \E i \in 1..Len(VALUE_MAP) : KeyEq(VALUE_MAP[i].key, EntryKey(n))

\* C8 witness: a valid entry, an entry without out_address, a valid entry
\* with another key; the table holds the two valid ones.
C8_Witness ==
    /\ load_result = "built"
    /\ Len(config_file.mappings) = 3
    /\ ValidAt(1) /\ ~ValidAt(2) /\ ValidAt(3)
    /\ config_file.mappings[2].out_address = NoneAddr
    /\ config_file.mappings[2].in_address = "/a"
    /\ Len(VALUE_MAP) = 2
    /\ StoresOutputOf(1, 1)
    /\ StoresOutputOf(2, 3)

\* C9 (the claim as stated; the program violates it): after load_config
\* took an error return the table is empty and forward_unmapped is false.
C9_PolicyFalseAfterError ==
    load_result = "returned" => (VALUE_MAP = << >> /\ FORWARD_UNMAPPED = FALSE)

\* C9 as amended: after load_config took an error return the table is
\* empty and forward_unmapped is true, its initial value; the one line
\* logged is the error; startup goes on to the GUI.
C9_PolicyTrueAfterError ==
    load_result = "returned"
    => /\ VALUE_MAP = << >>
       /\ FORWARD_UNMAPPED = TRUE
       /\ pc \in {"create_app", "mainloop", "destroyed"}
       /\ pc = "create_app"
          => \/ log = <<LogEvent("ERROR_READ", "", << >>)>>
             \/ log = <<LogEvent("ERROR_WRITE", "", << >>)>>

\* C9 witness: the file could not be read, the session started all the
\* same, and a message was passed through.
C9_Witness ==
    /\ load_result = "returned"
    /\ config_file.status = "unreadable"
    /\ pc = "mainloop"
    /\ Handled
    /\ sent = <<inbound[1]>>

\* C10 (the claim as stated; the program violates it): load_config never
\* ends by raising out of the loop over the mappings.
C10_NeverRaises == load_result # "raised" /\ pc # "crashed"

\* ---- lifecycle

lifecycle == <<osc_client, osc_server_obj, server_thread, running, live_servers,
               live_threads>>

\* A start that binds and reaches Running.
StartSucceeds ==
    StartWith(TRUE, TRUE, TRUE) /\ running' /\ osc_server_obj' = "server"

\* C11: a start requested while a session is running has no effect: it
\* constructs no client, server or worker and leaves the ones of the session
\* in place, and whatever the sequence of start, stop and close events, at
\* most one listening server and one listening worker thread exist.
C11_StartWhileRunning ==
    /\ [](live_servers <= 1 /\ live_threads <= 1)
    /\ [][(running /\ last_op' = "on_start")
            => (made' = {} /\ dialog' = "none" /\ UNCHANGED lifecycle)]_vars

\* on_start has returned from its check of self.running during a session.
C11_Witness ==
    /\ last_op = "on_start"
    /\ running
    /\ made = {}
    /\ osc_server_obj = "server"
    /\ live_servers = 1

\* C12: a start whose listening socket cannot be bound is reported as a
\* failure and leaves the session stopped: running is false, there is no
\* server object and no worker thread, the program is still in its main loop
\* and a start that can bind succeeds from there.
C12_BindFailure ==
    (last_op = "on_start" /\ made = {"client"})
        => /\ dialog = "failed_to_start"
           /\ ~running
           /\ osc_server_obj = "None"
           /\ server_thread = "None"
           /\ live_servers = 0
           /\ live_threads = 0
           /\ pc = "mainloop"
           /\ ENABLED StartSucceeds

\* start_osc_server has raised at the construction of the server.
C12_Witness ==
    /\ last_op = "on_start"
    /\ made = {"client"}
    /\ dialog = "failed_to_start"
    /\ ~running

\* C13: stop is idempotent: a stop requested while no session is running
\* changes nothing of the lifecycle state and reports no error, and every
\* stop leaves the session stopped, so two stops in a row leave what one
\* leaves.
C13_StopIdempotent ==
    /\ [][(~running /\ last_op' = "on_stop")
            => (dialog' = "none" /\ ~raised' /\ UNCHANGED lifecycle
                /\ UNCHANGED <<pc, VALUE_MAP, FORWARD_UNMAPPED>>)]_vars
    /\ [][last_op' = "on_stop"
            => (~running' /\ osc_server_obj' = "None" /\ server_thread' = "None"
                /\ live_servers' = 0 /\ live_threads' = 0)]_vars

\* on_stop has returned from its check of self.running with no session.
C13_Witness ==
    /\ last_op = "on_stop"
    /\ log = << >>
    /\ ~running
    /\ osc_server_obj = "None"

\* ---- frame of the table and the policy

\* C15: VALUE_MAP and FORWARD_UNMAPPED do not change during a session: no
\* dispatch, send, start or stop assigns them, and the only step that does
\* is load_config, taken while no session is running.
C15_TableImmutable ==
    [][(VALUE_MAP' # VALUE_MAP \/ FORWARD_UNMAPPED' # FORWARD_UNMAPPED)
         => /\ last_op' = "load_config"
            /\ ~running
            /\ osc_server_obj = "None"
            /\ live_servers = 0]_vars

\* A session with a table of rules has dispatched a message and sent one.
C15_Witness ==
    /\ last_op = "osc_handler"
    /\ running
    /\ sent # << >>
    /\ Len(VALUE_MAP) > 0
    /\ ~FORWARD_UNMAPPED

\* ---- handler threads

\* The log lines handler thread i has written, in the order of the log.
RECURSIVE LinesOf(_, _)
LinesOf(i, l) ==
    IF l = << >> THEN << >>
    ELSE (IF Head(l).id = i THEN <<Head(l).line>> ELSE << >>) \o LinesOf(i, Tail(l))

\* The key handler thread i looks up.
HandlerKey(i) ==
    [address |-> handlers[i].msg.address,
     value |-> IF handlers[i].msg.args = << >> THEN PyNone
               ELSE handlers[i].msg.args[1]]

\* The positions of the outbox that hold a send of handler thread i.
SendsOf(i) == {k \in 1..Len(outbox) : outbox[k].id = i}

\* C16: every inbound message gets one receive line, written before its
\* decision is taken, and then exactly one outcome line: the sent address
\* and arguments when it is forwarded, written before the send, or the
\* ignored key when it is dropped.
C16_LogEvents ==
    \A i \in 1..Len(handlers) :
        LET h == handlers[i]
            l == LinesOf(i, tlog)
            recv == LogEvent("RECV", h.msg.address, h.msg.args)
        IN  /\ h.pc = "recv" => l = << >>
            /\ h.pc = "route" => l = <<recv>>
            /\ h.pc = "send"
                => (l = <<recv, LogEvent("SEND", h.out[1].address, h.out[1].args)>>
                    /\ SendsOf(i) = {})
            /\ (h.pc = "done" /\ h.out # << >>)
                => (l = <<recv, LogEvent("SEND", h.out[1].address, h.out[1].args)>>
                    /\ Cardinality(SendsOf(i)) = 1)
            /\ (h.pc = "done" /\ h.out = << >>)
                => (l = <<recv, LogEvent("IGNORED", HandlerKey(i).address,
                                         <<HandlerKey(i).value>>)>>
                    /\ SendsOf(i) = {})

\* One handler thread has forwarded its message and another has dropped its
\* own, their lines mixed in the log.
C16_Witness ==
    /\ Len(handlers) = 2
    /\ \E i, j \in 1..2 :
        /\ handlers[i].pc = "done" /\ handlers[i].out # << >>
        /\ handlers[j].pc = "done" /\ handlers[j].out = << >>
    /\ tlog[1].id # tlog[2].id

\* C18: the outbound messages leave in the arrival order of the inbound
\* messages they answer, whatever the interleaving of the handler threads.
C18_FifoOrder ==
    \A j, k \in 1..Len(outbox) : j < k => outbox[j].id < outbox[k].id

\* C19: stop ends the serving thread and closes the socket: once it has
\* returned no server, no serving thread and no handler thread is left, no
\* datagram is received and no message is sent before the next start that
\* succeeds, and such a start can be made.
C19_StopHalts ==
    /\ [][last_op' \in {"on_stop", "on_close"}
            => (osc_server_obj' = "None" /\ server_thread' = "None"
                /\ live_servers' = 0 /\ live_threads' = 0 /\ HandlersJoined')]_vars
    /\ [][(osc_server_obj = "None" /\ osc_server_obj' = "None")
            => (handlers' = handlers /\ outbox' = outbox /\ tlog' = tlog
                /\ last_op' \notin ThreadOps)]_vars
    /\ []((last_op = "on_stop" /\ pc = "mainloop") => ENABLED StartSucceeds)

\* A session that received and forwarded a message has been stopped.
C19_Witness ==
    /\ last_op = "on_stop"
    /\ log # << >>
    /\ ~running
    /\ osc_server_obj = "None"
    /\ Len(outbox) > 0
    /\ Len(handlers) = MaxDatagrams

\* ---- defaults of the loader

\* The valid entries of the file that carry no out_args field and are the
\* last of their key.
MissingArgsEntries ==
    {n \in 1..Len(config_file.mappings) :
        /\ ValidAt(n)
        /\ config_file.mappings[n].out_args.kind = "missing"
        /\ \A k \in 1..Len(config_file.mappings) :
              (ValidAt(k) /\ KeyEq(EntryKey(k), EntryKey(n))) => k <= n}

\* C17: a valid entry without an out_args field is stored with the empty
\* argument list, and a message that matches it is forwarded to its
\* out_address with no argument.
C17_MissingOutArgs ==
    load_result = "built"
    => \A n \in MissingArgsEntries :
          /\ \E i \in 1..Len(VALUE_MAP) :
                /\ KeyEq(VALUE_MAP[i].key, EntryKey(n))
                /\ VALUE_MAP[i].out =
                      [address |-> config_file.mappings[n].out_address,
                       args |-> [kind |-> "list", items |-> << >>]]
          /\ (Handled /\ KeyEq(InboundKey, EntryKey(n)))
                => sent = <<Msg(config_file.mappings[n].out_address, << >>)>>

\* A message has matched a rule written without out_args and gone out with
\* no argument.
C17_Witness ==
    /\ load_result = "built"
    /\ Handled
    /\ \E n \in MissingArgsEntries : KeyEq(InboundKey, EntryKey(n))
    /\ sent # << >>
    /\ sent[1].args = << >>

\* C20: after a file that was read and carries no forward_unmapped field the
\* policy is false, although it was true before; the policy is true after
\* load_config only when the file read carries a truthy forward_unmapped or
\* load_config returned before the assignment.
C20_PolicyDefault ==
    /\ (load_result \in {"built", "raised"} /\ config_file.forward_unmapped = << >>)
          => ~FORWARD_UNMAPPED
    /\ (load_result # "none" /\ FORWARD_UNMAPPED)
          => \/ load_result = "returned"
             \/ /\ config_file.forward_unmapped # << >>
                /\ config_file.forward_unmapped[1] = PyBool(1)

\* A file with rules and no forward_unmapped field has been loaded.
C20_Witness ==
    /\ load_result = "built"
    /\ config_file.status = "ok"
    /\ config_file.forward_unmapped = << >>
    /\ Len(VALUE_MAP) > 0
    /\ ~FORWARD_UNMAPPED

\* ---- send failure

\* C14: a send_message that raises is caught and logged by the router: no
\* exception leaves osc_handler, a line about the failure follows in the log,
\* and the session goes on.
C14_SendFailureCaught ==
    (last_op = "handler_send" /\ send_error)
        => /\ ~raised
           /\ \E k \in 1..Len(tlog) : tlog[k].line.ev \notin {"RECV", "SEND", "IGNORED"}
           /\ running
           /\ osc_server_obj = "server"

====
